---- MODULE Spec2Model ----
(***************************************************************************)
(* The Reflexion actor of examples/reflexion/reflexion.ipynb: a            *)
(* MessageGraph with the nodes draft, execute_tools and revise, the        *)
(* retrying responder behind draft and revise, the tool dispatcher behind  *)
(* execute_tools, and the conditional edge event_loop after revise.        *)
(***************************************************************************)
EXTENDS Integers, Sequences, FiniteSets, TLC

VARIABLES
    conversation,    \* the graph state: List[BaseMessage]
    stage,           \* the node the graph is at, or "Terminated" (END)
    error,           \* the exception that left the run, or "none"
    state,           \* respond's local variable `state`
    response,        \* respond's local variable `response`
    attempt,         \* client invocations made by the current/last respond call
    num_iterations,  \* event_loop's local variable `num_iterations`
    runs,            \* how often each node has completed
    client_calls,    \* client invocations made in the run
    raised,          \* the exception the client raised last, or "none"
    pc,              \* execute_tools: "idle", or "batch" while line 154 runs
    tool_invocations,\* execute_tools' lists `ids` and `tool_invocations`, zipped
    completed        \* the lookups of the batch that are over, as they ended

\* the client's call counter and the inside of tool_executor.batch
aux == <<client_calls, raised, pc, tool_invocations, completed>>

vars == <<conversation, stage, error, state, response, attempt,
          num_iterations, runs, aux>>

(***************************************************************************)
(* Bounds of the model and constants of the program.                       *)
(***************************************************************************)
MaxCalls == 4          \* most ToolCalls in one uniform Model message
MaxProbeLen == 7       \* longest Conversation handed to event_loop alone

MAX_ITERATIONS == 5
MaxAttempts == 3

END == "Terminated"

(***************************************************************************)
(* Messages.                                                               *)
(***************************************************************************)
HumanMessage(content) == [type |-> "human", content |-> content]

AIMessage(tool_calls) == [type |-> "ai", tool_calls |-> tool_calls]

ToolMessage(content, tool_call_id) ==
    [type |-> "tool", content |-> content, tool_call_id |-> tool_call_id]

Task == HumanMessage("task")

\* HumanMessage(content=repr(e)) of a ValidationError e
Feedback == HumanMessage("ValidationError")

Last(s) == s[Len(s)]

(***************************************************************************)
(* What the generative backend may answer.  A ToolCall is an id and the    *)
(* args the model wrote; args is the parsed JSON object, so a field the    *)
(* model left out is absent from its domain.                               *)
(***************************************************************************)
FullArgs(queries) ==
    [answer |-> "a", reflection |-> "r", search_queries |-> queries,
     references |-> "refs"]

\* the model left out `answer`
ArgsNoAnswer(queries) ==
    [reflection |-> "r", search_queries |-> queries, references |-> "refs"]

\* the model left out `search_queries`
ArgsNoQueries == [answer |-> "a", reflection |-> "r", references |-> "refs"]

\* the model left out `references` (an AnswerQuestion, not a ReviseAnswer)
ArgsNoReferences(queries) ==
    [answer |-> "a", reflection |-> "r", search_queries |-> queries]

\* the queries of the k-th ToolCall of a uniform message: all share "q1"
QueriesOf(k) == IF k % 2 = 0 THEN <<"q1", "q2">> ELSE <<"q1">>

\* n well-formed ToolCalls, numbered 1..n
UniformCalls(n) == [k \in 1..n |-> [id |-> k, args |-> FullArgs(QueriesOf(k))]]

Candidates ==
    {UniformCalls(n) : n \in 0..MaxCalls}
    \cup { <<[id |-> 1, args |-> FullArgs(<<>>)]>>,
           <<[id |-> 1, args |-> FullArgs(<<"q1", "q1">>)]>>,
           <<[id |-> 1, args |-> ArgsNoReferences(<<"q2">>)]>>,
           <<[id |-> 1, args |-> ArgsNoAnswer(<<"q1">>)]>>,
           <<[id |-> 1, args |-> ArgsNoQueries]>> }

\* The backend's identifiers are unique over the run: the ToolCalls of the
\* message that would land at position pos carry <<pos, k>>.
Stamp(calls, pos) ==
    [k \in 1..Len(calls) |-> [id |-> <<pos, calls[k].id>>, args |-> calls[k].args]]

(***************************************************************************)
(* The schema validators: PydanticToolsParser(tools=[AnswerQuestion]) for  *)
(* draft, PydanticToolsParser(tools=[ReviseAnswer]) for revise.  Building  *)
(* the pydantic object raises ValidationError when a required field is     *)
(* absent; a field the schema does not name is ignored.                    *)
(***************************************************************************)
AnswerQuestion == {"answer", "reflection", "search_queries"}

ReviseAnswer == AnswerQuestion \cup {"references"}

Schema(node) == IF node = "Draft" THEN AnswerQuestion ELSE ReviseAnswer

\* self.validator.invoke(response): TRUE when it returns, FALSE when it
\* raises ValidationError
validator_invoke(schema, msg) ==
    \A k \in 1..Len(msg.tool_calls) : schema \subseteq DOMAIN msg.tool_calls[k].args

\* self.runnable.invoke({"messages": state}): the backend answers with the
\* candidate c; the prompt it saw is `messages`
runnable_invoke(messages, c, pos) == AIMessage(Stamp(c, pos))

(***************************************************************************)
(* execute_tools                                                           *)
(***************************************************************************)
\* the search collaborator, one call per ToolInvocation
Search(query) == <<"results for", query>>

\* parser.invoke(tool_invocation): the ToolCalls of the Model message
parser_invoke(msg) == msg.tool_calls

\* parsed_call["args"]["search_queries"] raises KeyError for such a call
RaisesKeyError(parsed_tool_calls) ==
    \E k \in 1..Len(parsed_tool_calls) :
        "search_queries" \notin DOMAIN parsed_tool_calls[k].args

\* a dispatcher that loops over set(search_queries): a query repeated in a
\* call is searched once
RECURSIVE FlattenDistinct(_)
FlattenDistinct(parsed_tool_calls) ==
    IF parsed_tool_calls = <<>> THEN <<>>
    ELSE LET parsed_call == Head(parsed_tool_calls)
             queries == parsed_call.args.search_queries
             first == {i \in 1..Len(queries) :
                          \A j \in 1..(i - 1) : queries[j] # queries[i]}
             RECURSIVE Pick(_)
             Pick(i) == IF i > Len(queries) THEN <<>>
                        ELSE (IF i \in first
                              THEN << <<parsed_call.id, queries[i]>> >>
                              ELSE <<>>) \o Pick(i + 1)
         IN  Pick(1) \o FlattenDistinct(Tail(parsed_tool_calls))

\* the two nested loops: one <<id, tool_input>> per query of each call, in
\* order (the lists `ids` and `tool_invocations`, zipped)
RECURSIVE Flatten(_)
Flatten(parsed_tool_calls) ==
    IF parsed_tool_calls = <<>> THEN <<>>
    ELSE LET parsed_call == Head(parsed_tool_calls)
             queries == parsed_call.args.search_queries
         IN  [i \in 1..Len(queries) |-> <<parsed_call.id, queries[i]>>]
             \o Flatten(Tail(parsed_tool_calls))

\* tool_executor.batch(tool_invocations): one output per invocation, by position
batch(invocations) == [i \in 1..Len(invocations) |-> Search(invocations[i][2])]

\* A Python dict is a sequence of <<key, value>> in insertion order.
HasKey(d, key) == \E i \in 1..Len(d) : d[i][1] = key

Get(d, key) == d[CHOOSE i \in 1..Len(d) : d[i][1] = key][2]

\* d[key] = value
Put(d, key, value) ==
    IF HasKey(d, key)
    THEN [i \in 1..Len(d) |-> IF d[i][1] = key THEN <<key, value>> ELSE d[i]]
    ELSE Append(d, <<key, value>>)

\* outputs_map = defaultdict(dict), then for each zipped triple
\* outputs_map[id_][invocation.tool_input] = output
RECURSIVE outputs_map(_, _, _)
outputs_map(invocations, outputs, n) ==
    IF n = 0 THEN <<>>
    ELSE CHOOSE after \in
            { LET id_ == invocations[n][1]
                  old == IF HasKey(m, id_) THEN Get(m, id_) ELSE <<>>
              IN  Put(m, id_, Put(old, invocations[n][2], outputs[n]))
              : m \in {outputs_map(invocations, outputs, n - 1)} } : TRUE

\* json.dumps(query_outputs): the object's members, in the dict's order
json_dumps(d) == [i \in 1..Len(d) |-> [key |-> d[i][1], value |-> d[i][2]]]

\* the returned list: one ToolMessage per item of outputs_map
ToolMessages(m) ==
    [i \in 1..Len(m) |-> ToolMessage(json_dumps(m[i][2]), m[i][1])]

\* a dispatcher that answers with one ToolMessage for the whole batch
execute_tools_one_message(messages) ==
    CHOOSE returned \in
        { <<ToolMessage(json_dumps(outputs_map(invocations, batch(invocations),
                                               Len(invocations))), "batch")>>
          : invocations \in {Flatten(parser_invoke(Last(messages)))} } : TRUE

\* execute_tools(state), when it raises nothing
execute_tools(messages) ==
    LET tool_invocation == Last(messages)
    IN  CHOOSE returned \in
            { ToolMessages(outputs_map(invocations, batch(invocations),
                                       Len(invocations)))
              : invocations \in {Flatten(parser_invoke(tool_invocation))} } : TRUE

(***************************************************************************)
(* The looping logic.                                                      *)
(***************************************************************************)
RECURSIVE CountBack(_, _)
CountBack(messages, j) ==
    IF j = 0 THEN 0
    ELSE IF messages[j].type \notin {"tool", "ai"} THEN 0
    ELSE 1 + CountBack(messages, j - 1)

\* a scan that takes only AIMessage for an iteration
CountBackAI(messages, j) ==
    Cardinality({i \in 1..j : \A h \in i..j : messages[h].type = "ai"})

_get_num_iterations_ai_only(messages) == CountBackAI(messages, Len(messages))

\* a count that is the length of the whole state (len(state))
_get_num_iterations_whole_state(messages) == Len(messages)

_get_num_iterations(messages) == CountBack(messages, Len(messages))

\* an event_loop that compares with >=
event_loop_ge(messages) ==
    IF _get_num_iterations(messages) >= MAX_ITERATIONS THEN END ELSE "execute_tools"

event_loop(messages) ==
    IF _get_num_iterations(messages) > MAX_ITERATIONS THEN END ELSE "execute_tools"

(***************************************************************************)
(* The graph: MessageGraph appends what a node returns to the state and    *)
(* follows the node's edge.                                                *)
(***************************************************************************)
\* the state reducer of MessageGraph: a single message counts as a list
add_messages(left, right) == left \o right

NodeName(target) ==
    IF target = "execute_tools" THEN "ExecuteTools"
    ELSE IF target = "revise" THEN "Revise"
    ELSE target

\* a graph whose draft edge leads to revise
EdgeDraftToRevise(node, messages) ==
    IF node = "Draft" THEN NodeName("revise")
    ELSE IF node = "ExecuteTools" THEN NodeName("revise")
    ELSE NodeName(event_loop(messages))

\* a graph whose conditional edge leaves execute_tools and whose revise
\* edge leads back to execute_tools
EdgeLoopAfterTools(node, messages) ==
    IF node = "Draft" THEN NodeName("execute_tools")
    ELSE IF node = "Revise" THEN NodeName("execute_tools")
    ELSE IF event_loop(messages) = END THEN END ELSE NodeName("revise")

\* builder.add_edge / add_conditional_edges: where the graph goes after
\* `node` has returned and the state is `messages`
Edge(node, messages) ==
    IF node = "Draft" THEN NodeName("execute_tools")
    ELSE IF node = "ExecuteTools" THEN NodeName("revise")
    ELSE NodeName(event_loop(messages))

\* `node` returns `value` (a list of messages)
NodeReturns(node, value) ==
    \E after \in {add_messages(conversation, value)} :
        /\ conversation' = after
        /\ stage' = Edge(node, after)
        /\ runs' = [runs EXCEPT ![node] = @ + 1]
        /\ num_iterations' =
               IF node = "Revise" THEN _get_num_iterations(after) ELSE num_iterations

Responding == stage \in {"Draft", "Revise"} /\ error = "none"

\* a respond whose try block lacks `return response`: it goes on to the
\* next attempt after a valid response too
RespondValidKeepsLooping ==
    /\ stage \in {"Draft", "Revise"} /\ error = "none"
    /\ attempt < MaxAttempts
    /\ \E c \in Candidates :
          LET r == runnable_invoke(state, c, Len(conversation) + 1)
          IN  /\ validator_invoke(Schema(stage), r)
              /\ response' = r
              /\ attempt' = attempt + 1
    /\ UNCHANGED <<conversation, stage, error, state, num_iterations, runs>>

\* lines 239-241: the client answers, the validator accepts, respond returns
RespondValid ==
    /\ Responding
    /\ attempt < MaxAttempts
    /\ \E c \in Candidates :
          LET r == runnable_invoke(state, c, Len(conversation) + 1)
          IN  /\ validator_invoke(Schema(stage), r)
              /\ response' = r
              /\ attempt' = attempt + 1
              /\ NodeReturns(stage, <<r>>)
    /\ UNCHANGED <<error, state>>

\* a respond that appends the feedback to the list it was given
\* (state.append(...)), which is the graph's
RespondRetryInPlace ==
    /\ stage \in {"Draft", "Revise"} /\ error = "none"
    /\ attempt < MaxAttempts
    /\ \E c \in Candidates :
          LET r == runnable_invoke(state, c, Len(conversation) + 1)
          IN  /\ ~validator_invoke(Schema(stage), r)
              /\ response' = r
              /\ attempt' = attempt + 1
              /\ state' = state \o <<Feedback>>
              /\ conversation' = conversation \o <<Feedback>>
    /\ UNCHANGED <<stage, error, num_iterations, runs>>

\* a respond that puts the rejected response into its history as well
\* (state = state + [response, HumanMessage(...)])
RespondRetryKeepsResponse ==
    /\ stage \in {"Draft", "Revise"} /\ error = "none"
    /\ attempt < MaxAttempts
    /\ \E c \in Candidates :
          LET r == runnable_invoke(state, c, Len(conversation) + 1)
          IN  /\ ~validator_invoke(Schema(stage), r)
              /\ response' = r
              /\ attempt' = attempt + 1
              /\ state' = state \o <<r, Feedback>>
    /\ UNCHANGED <<conversation, stage, error, num_iterations, runs>>

\* lines 239-243: the client answers, the validator raises ValidationError,
\* the description of the error joins the local `state`
RespondRetry ==
    /\ Responding
    /\ attempt < MaxAttempts
    /\ \E c \in Candidates :
          LET r == runnable_invoke(state, c, Len(conversation) + 1)
          IN  /\ ~validator_invoke(Schema(stage), r)
              /\ response' = r
              /\ attempt' = attempt + 1
              /\ state' = state \o <<Feedback>>
    /\ UNCHANGED <<conversation, stage, error, num_iterations, runs>>

\* a respond that raises the last ValidationError when the loop is over
RespondExhaustedRaises ==
    /\ stage \in {"Draft", "Revise"} /\ error = "none"
    /\ attempt = MaxAttempts
    /\ error' = "ValidationError"
    /\ UNCHANGED <<conversation, stage, state, response, attempt,
                   num_iterations, runs>>

\* line 244: the loop is over, respond returns the last response
RespondExhausted ==
    /\ Responding
    /\ attempt = MaxAttempts
    /\ NodeReturns(stage, <<response>>)
    /\ UNCHANGED <<error, state, response, attempt>>

\* an execute_tools that takes its message with state.pop(), off the list
\* the graph gave it
ExecuteToolsPops ==
    /\ stage = "ExecuteTools" /\ error = "none"
    /\ ~RaisesKeyError(parser_invoke(Last(conversation)))
    /\ \E after \in {add_messages(SubSeq(conversation, 1, Len(conversation) - 1),
                                   execute_tools(conversation))} :
          /\ conversation' = after
          /\ stage' = Edge("ExecuteTools", after)
    /\ runs' = [runs EXCEPT !["ExecuteTools"] = @ + 1]
    /\ state' = conversation'
    /\ response' = <<>>
    /\ attempt' = 0
    /\ UNCHANGED <<error, num_iterations>>

\* execute_tools returns; the graph calls revisor.respond(state) next
ExecuteTools ==
    /\ stage = "ExecuteTools" /\ error = "none"
    /\ ~RaisesKeyError(parser_invoke(Last(conversation)))
    /\ NodeReturns("ExecuteTools", execute_tools(conversation))
    /\ state' = conversation'
    /\ response' = <<>>
    /\ attempt' = 0
    /\ UNCHANGED error

\* line 143 raises KeyError, which leaves the graph
ExecuteToolsRaises ==
    /\ stage = "ExecuteTools" /\ error = "none"
    /\ RaisesKeyError(parser_invoke(Last(conversation)))
    /\ error' = "KeyError"
    /\ UNCHANGED <<conversation, stage, state, response, attempt,
                   num_iterations, runs>>

InitAux ==
    /\ client_calls = 0
    /\ raised = "none"
    /\ pc = "idle"
    /\ tool_invocations = <<>>
    /\ completed = <<>>

\* graph.stream([HumanMessage(...)]): the entry point is draft
Init ==
    /\ conversation = <<Task>>
    /\ stage = "Draft"
    /\ error = "none"
    /\ state = <<Task>>
    /\ response = <<>>
    /\ attempt = 0
    /\ num_iterations = 0
    /\ runs = [n \in {"Draft", "ExecuteTools", "Revise"} |-> 0]
    /\ InitAux

\* every backend call returns and the batch is one step
Next ==
    \/ RespondValid /\ UNCHANGED aux
    \/ RespondRetry /\ UNCHANGED aux
    \/ RespondExhausted /\ UNCHANGED aux
    \/ ExecuteTools /\ UNCHANGED aux
    \/ ExecuteToolsRaises /\ UNCHANGED aux

Spec == Init /\ [][Next]_vars

\* every step of the run is taken as soon as the calls it waits for return
FairSpec == Spec /\ WF_vars(Next)

(***************************************************************************)
(* The run with a backend whose every answer is valid and asks for no      *)
(* search: no ToolCall at all, or ToolCalls with empty search_queries.     *)
(***************************************************************************)
RECURSIVE NoQueries(_)
NoQueries(parsed_tool_calls) ==
    IF parsed_tool_calls = <<>> THEN TRUE
    ELSE /\ "search_queries" \in DOMAIN Head(parsed_tool_calls).args
         /\ Head(parsed_tool_calls).args.search_queries = <<>>
         /\ NoQueries(Tail(parsed_tool_calls))

RespondQuiet == RespondValid /\ NoQueries(parser_invoke(response'))

NextQuiet ==
    \/ RespondQuiet /\ UNCHANGED aux
    \/ ExecuteTools /\ UNCHANGED aux

SpecQuiet == Init /\ [][NextQuiet]_vars

(***************************************************************************)
(* The run with a client that may raise, and its invocations counted.      *)
(***************************************************************************)
\* line 239 has invoked the client and the client has answered
Counted ==
    /\ client_calls' = client_calls + 1
    /\ UNCHANGED <<raised, pc, tool_invocations, completed>>

\* a respond whose handler is `except Exception`: the client's error
\* becomes feedback and the next attempt follows
RespondBackendErrorRetried ==
    /\ stage \in {"Draft", "Revise"} /\ error = "none"
    /\ attempt < MaxAttempts
    /\ attempt' = attempt + 1
    /\ client_calls' = client_calls + 1
    /\ raised' = "BackendError"
    /\ state' = state \o <<HumanMessage("BackendError")>>
    /\ UNCHANGED <<conversation, stage, error, response, num_iterations, runs,
                   pc, tool_invocations, completed>>

\* line 239 raises something that is no ValidationError: line 242 does not
\* catch it, so it leaves respond and the graph
RespondBackendError ==
    /\ Responding
    /\ attempt < MaxAttempts
    /\ attempt' = attempt + 1
    /\ client_calls' = client_calls + 1
    /\ raised' = "BackendError"
    /\ error' = "BackendError"
    /\ UNCHANGED <<conversation, stage, state, response, num_iterations, runs,
                   pc, tool_invocations, completed>>

NextBackend ==
    \/ RespondValid /\ Counted
    \/ RespondRetry /\ Counted
    \/ RespondBackendError
    \/ RespondExhausted /\ UNCHANGED aux
    \/ ExecuteTools /\ UNCHANGED aux
    \/ ExecuteToolsRaises /\ UNCHANGED aux

SpecBackend == Init /\ [][NextBackend]_vars

(***************************************************************************)
(* execute_tools step by step: the batch of line 154 is in flight while    *)
(* its lookups end one by one, in any order, and a lookup may fail.        *)
(***************************************************************************)
\* how many lookups of one batch may fail
MaxFailed == 1

\* how many ToolCalls the largest dispatched message carries
MaxBatchCalls == 3

\* the messages execute_tools is run on: 0..MaxBatchCalls well-formed calls,
\* and the single calls of Candidates
DispatchCandidates ==
    {UniformCalls(n) : n \in 0..MaxBatchCalls}
    \cup {c \in Candidates : Len(c) = 1}

\* what a failed lookup hands back in place of its results
SearchError(query) == <<"error", query>>

\* the positions of the batch whose lookup is still running
Pending ==
    {i \in 1..Len(tool_invocations) :
        \A j \in 1..Len(completed) : completed[j][1] # i}

Failed(done) == {j \in 1..Len(done) : done[j][2][1] = "error"}

\* what the batch returns: the output of the i-th invocation at position i
batch_outputs(done) ==
    [i \in 1..Len(done) |->
        done[CHOOSE j \in 1..Len(done) : done[j][1] = i][2]]

\* the outputs in the order in which the lookups ended
as_completed(done) == [j \in 1..Len(done) |-> done[j][2]]

\* draft has returned a message; execute_tools is about to run
InitDispatch ==
    /\ \E c \in DispatchCandidates :
          \E r \in {runnable_invoke(<<Task>>, c, 2)} :
              /\ conversation = <<Task, r>>
              /\ response = r
              /\ attempt = IF validator_invoke(Schema("Draft"), r)
                           THEN 1 ELSE MaxAttempts
              /\ state = IF validator_invoke(Schema("Draft"), r)
                         THEN <<Task>>
                         ELSE <<Task, Feedback, Feedback, Feedback>>
    /\ stage = "ExecuteTools"
    /\ error = "none"
    /\ num_iterations = 0
    /\ runs = [n \in {"Draft", "ExecuteTools", "Revise"} |->
                  IF n = "Draft" THEN 1 ELSE 0]
    /\ InitAux

\* lines 138-153: the message is parsed and flattened, line 154 starts
StartBatch ==
    /\ stage = "ExecuteTools" /\ error = "none"
    /\ pc = "idle"
    /\ ~RaisesKeyError(parser_invoke(Last(conversation)))
    /\ pc' = "batch"
    /\ tool_invocations' = Flatten(parser_invoke(Last(conversation)))
    /\ completed' = <<>>
    /\ UNCHANGED <<conversation, stage, error, state, response, attempt,
                   num_iterations, runs, client_calls, raised>>

\* one lookup of the batch ends, with results or with an error value
CompleteLookup ==
    /\ pc = "batch"
    /\ \E i \in Pending, ok \in BOOLEAN :
          /\ ~ok => Cardinality(Failed(completed)) < MaxFailed
          /\ completed' =
                 Append(completed,
                        <<i, IF ok THEN Search(tool_invocations[i][2])
                                   ELSE SearchError(tool_invocations[i][2])>>)
    /\ UNCHANGED <<conversation, stage, error, state, response, attempt,
                   num_iterations, runs, client_calls, raised, pc,
                   tool_invocations>>

\* an execute_tools that zips the outputs in the order the lookups ended
BatchReturnsAsCompleted ==
    /\ pc = "batch"
    /\ Pending = {}
    /\ \E returned \in {ToolMessages(outputs_map(tool_invocations,
                                                  as_completed(completed),
                                                  Len(tool_invocations)))} :
          NodeReturns("ExecuteTools", returned)
    /\ state' = conversation'
    /\ response' = <<>>
    /\ attempt' = 0
    /\ pc' = "idle"
    /\ UNCHANGED <<error, client_calls, raised, tool_invocations, completed>>

\* an execute_tools that raises when one of the outputs is an error
BatchReturnsAborts ==
    /\ pc = "batch"
    /\ Pending = {}
    /\ IF Failed(completed) # {}
       THEN /\ error' = "ToolExecutionError"
            /\ UNCHANGED <<conversation, stage, state, response, attempt,
                           num_iterations, runs>>
       ELSE /\ \E returned \in {ToolMessages(outputs_map(tool_invocations,
                                                  batch_outputs(completed),
                                                  Len(tool_invocations)))} :
                  NodeReturns("ExecuteTools", returned)
            /\ state' = conversation'
            /\ response' = <<>>
            /\ attempt' = 0
            /\ UNCHANGED error
    /\ pc' = "idle"
    /\ UNCHANGED <<client_calls, raised, tool_invocations, completed>>

\* lines 154-162: the batch is over, the outputs are zipped with the ids
\* and the invocations, execute_tools returns its ToolMessages
BatchReturns ==
    /\ pc = "batch"
    /\ Pending = {}
    /\ \E returned \in {ToolMessages(outputs_map(tool_invocations,
                                                  batch_outputs(completed),
                                                  Len(tool_invocations)))} :
          NodeReturns("ExecuteTools", returned)
    /\ state' = conversation'
    /\ response' = <<>>
    /\ attempt' = 0
    /\ pc' = "idle"
    /\ UNCHANGED <<error, client_calls, raised, tool_invocations, completed>>

NextDispatch ==
    \/ StartBatch
    \/ CompleteLookup
    \/ BatchReturns
    \/ ExecuteToolsRaises /\ UNCHANGED aux

SpecDispatch == InitDispatch /\ [][NextDispatch]_vars

(***************************************************************************)
(* event_loop on its own, over every Conversation of bounded length.       *)
(***************************************************************************)
ProbeMessages == {Task, AIMessage(<<>>), ToolMessage(<<>>, <<0, 1>>)}

RECURSIVE SeqsUpTo(_, _)
SeqsUpTo(S, n) ==
    IF n = 0 THEN {<<>>}
    ELSE LET shorter == SeqsUpTo(S, n - 1)
         IN  shorter \cup {Append(s, x) : s \in shorter, x \in S}

InitDepth ==
    /\ conversation \in SeqsUpTo(ProbeMessages, MaxProbeLen)
    /\ stage = "Revise"
    /\ error = "none"
    /\ state = <<>>
    /\ response = <<>>
    /\ attempt = 0
    /\ num_iterations = 0
    /\ runs = [n \in {"Draft", "ExecuteTools", "Revise"} |-> 0]
    /\ InitAux

\* the conditional edge is evaluated on the state as it is
EventLoopAlone ==
    /\ stage = "Revise"
    /\ num_iterations' = _get_num_iterations(conversation)
    /\ stage' = NodeName(event_loop(conversation))
    /\ UNCHANGED <<conversation, error, state, response, attempt, runs>>

\* a further Human message is put in at position i and the edge evaluated again
InsertHuman ==
    /\ stage # "Revise"
    /\ Len(conversation) < MaxProbeLen
    /\ \E i \in 1..(Len(conversation) + 1) :
          LET longer == SubSeq(conversation, 1, i - 1) \o <<Task>>
                        \o SubSeq(conversation, i, Len(conversation))
          IN  /\ conversation' = longer
              /\ num_iterations' = _get_num_iterations(longer)
              /\ stage' = NodeName(event_loop(longer))
    /\ UNCHANGED <<error, state, response, attempt, runs>>

NextDepth ==
    \/ EventLoopAlone /\ UNCHANGED aux
    \/ InsertHuman /\ UNCHANGED aux

SpecDepth == InitDepth /\ [][NextDepth]_vars

(***************************************************************************)
(* Properties.                                                             *)
(***************************************************************************)
IsHuman(m) == m.type = "human"

\* the position of the last Human message, 0 when there is none
LastHuman(messages) ==
    LET H == {i \in 1..Len(messages) : IsHuman(messages[i])}
    IN  IF H = {} THEN 0 ELSE CHOOSE i \in H : \A j \in H : j <= i

\* C3: once event_loop has computed it, the iteration depth is the number
\* of messages after the last Human message of the Conversation: k for a
\* Human message followed by exactly k Model/ToolResult messages, 0 for a
\* Conversation that ends in a Human message, and the messages after the
\* second Human message when one has been inserted.
C3_DepthCountsAfterLastHuman ==
    stage # "Revise" =>
        /\ num_iterations = Len(conversation) - LastHuman(conversation)
        /\ (conversation # <<>> /\ IsHuman(conversation[1])
              /\ (\A i \in 2..Len(conversation) : ~IsHuman(conversation[i])))
           => num_iterations = Len(conversation) - 1
        /\ (conversation # <<>> /\ IsHuman(Last(conversation)))
           => num_iterations = 0

\* a second Human message stands behind two generated messages and before
\* three: the depth computed is 3
C3_Witness ==
    /\ stage # "Revise"
    /\ Len(conversation) = 7
    /\ {i \in 1..7 : IsHuman(conversation[i])} = {1, 4}
    /\ num_iterations = 3

\* respond returns in this step
RespondReturns ==
    /\ stage \in {"Draft", "Revise"}
    /\ runs'[stage] = runs[stage] + 1

\* the Model Completion Client is invoked in this step
ClientCalled == attempt' = attempt + 1

AllowedEdges ==
    { <<"Draft", "ExecuteTools">>, <<"ExecuteTools", "Revise">>,
      <<"Revise", "ExecuteTools">>, <<"Revise", END>> }

\* the termination predicate, on the Conversation as Revise leaves it
DepthExceeded(messages) == Len(messages) - LastHuman(messages) > 5

\* C2: the orchestrator moves only along Draft -> ExecuteTools,
\* ExecuteTools -> Revise, Revise -> ExecuteTools (termination predicate
\* false) and Revise -> Terminated (predicate true); a node that returns
\* always takes its edge; Draft is the initial state and has run exactly
\* once as soon as the run has left it; no step follows Terminated.
C2_OnlyGraphTransitions ==
    /\ stage = "Draft"
    /\ [][ /\ stage # END
           /\ stage' # stage => <<stage, stage'>> \in AllowedEdges
           /\ runs'["Draft"] # runs["Draft"] => stage' = "ExecuteTools"
           /\ runs'["ExecuteTools"] # runs["ExecuteTools"] => stage' = "Revise"
           /\ runs'["Revise"] # runs["Revise"] =>
                 stage' = IF DepthExceeded(conversation') THEN END
                          ELSE "ExecuteTools"
         ]_vars
    /\ [](runs["Draft"] = IF stage = "Draft" THEN 0 ELSE 1)

\* the run went Draft, ExecuteTools, Revise, ExecuteTools, Revise, Terminated
C2_Witness ==
    /\ stage = END
    /\ runs = [n \in {"Draft", "ExecuteTools", "Revise"} |->
                  IF n = "Draft" THEN 1 ELSE 2]

\* C4: one call of respond invokes the client at least once and at most 3
\* times; a response that passes validation is returned in the very step
\* it arrives, so the client is only ever called again after a response
\* that failed, and a respond that returns before its third attempt
\* returns a valid response: the one just received.
C4_ReturnsFirstValid ==
    /\ [](attempt \in 0..3)
    /\ [][ /\ RespondReturns =>
                /\ attempt' \in 1..3
                /\ conversation' = Append(conversation, response')
                /\ (attempt' < 3 => validator_invoke(Schema(stage), response'))
           /\ (ClientCalled /\ validator_invoke(Schema(stage), response')) =>
                /\ RespondReturns
                /\ Last(conversation') = response'
           /\ (ClientCalled /\ attempt > 0) =>
                ~validator_invoke(Schema(stage), response)
         ]_vars

\* two rejected responses, then a valid one that draft returned
C4_Witness ==
    /\ stage = "ExecuteTools"
    /\ runs["ExecuteTools"] = 0
    /\ attempt = 3
    /\ validator_invoke(AnswerQuestion, response)
    /\ Last(conversation) = response

\* C5: when every attempt is rejected, respond returns after exactly 3
\* attempts, returns the response of the third attempt and raises nothing:
\* the only step out of the exhausted loop hands `response` to the graph,
\* and an invalid message is only ever returned that way.
C5_ExhaustedReturnsLast ==
    [][ /\ (Responding /\ attempt = 3) =>
             /\ RespondReturns
             /\ ~validator_invoke(Schema(stage), response)
             /\ conversation' = Append(conversation, response)
             /\ error' = "none"
             /\ attempt' = 3
        /\ (RespondReturns /\ ~validator_invoke(Schema(stage), Last(conversation'))) =>
             /\ attempt = 3
             /\ ~ClientCalled
      ]_vars

\* draft was rejected three times and returned its third response
C5_Witness ==
    /\ runs["Draft"] = 1
    /\ runs["ExecuteTools"] = 0
    /\ stage = "ExecuteTools"
    /\ attempt = 3
    /\ error = "none"
    /\ ~validator_invoke(AnswerQuestion, response)
    /\ Last(conversation) = response

\* an invalid Model message is in the Conversation: a response some
\* attempt of respond got and the validator rejected
RejectedInConversation ==
    \E j \in 2..Len(conversation) :
       /\ conversation[j].type = "ai"
       /\ ~validator_invoke(Schema(IF j = 2 THEN "Draft" ELSE "Revise"),
                            conversation[j])

NoFeedbackInConversation ==
    \A i \in 1..Len(conversation) : conversation[i] # Feedback

\* one step of a running respond, seen from the graph: nothing, or one
\* Model message more
OneModelMessageGained ==
    Responding =>
       \/ conversation' = conversation /\ ~RespondReturns
       \/ /\ RespondReturns
          /\ conversation' = Append(conversation, response')
          /\ response'.type = "ai"

\* C6 as stated: while respond runs the graph's Conversation does not
\* change, whether 0, 1, 2 or 3 attempts fail; when respond returns, the
\* Conversation has gained exactly one Model message, no synthetic Human
\* feedback message and no rejected Model response.
C6_NoRejectedResponseEver ==
    /\ [](NoFeedbackInConversation /\ ~RejectedInConversation)
    /\ [][OneModelMessageGained]_vars

\* C6 as amended: the same, but the one Model message gained is the
\* response respond returns, which after 3 failed attempts is the third
\* rejected response; with fewer failed attempts no rejected response is
\* gained, and the feedback messages are in the local `state` only.
C6_FailedAttemptsLeaveNoTrace ==
    /\ [](NoFeedbackInConversation)
    /\ [](Responding =>
            /\ Len(state) = Len(conversation) + attempt
            /\ SubSeq(state, 1, Len(conversation)) = conversation
            /\ \A i \in (Len(conversation) + 1)..Len(state) : state[i] = Feedback)
    /\ [][ /\ OneModelMessageGained
           /\ (RespondReturns /\ attempt' < 3) =>
                 validator_invoke(Schema(stage), Last(conversation'))
         ]_vars

\* revise failed three times: three feedback messages are in the local
\* state, and the Conversation gained the third response and nothing else
C6_Witness ==
    /\ runs["Revise"] = 1
    /\ stage = "ExecuteTools"
    /\ attempt = 3
    /\ Len(state) = Len(conversation) + 2
    /\ \A i \in 0..2 : state[Len(state) - i] = Feedback
    /\ SubSeq(state, 1, Len(state) - 3) = SubSeq(conversation, 1, Len(conversation) - 1)
    /\ Last(conversation) = response
    /\ ~validator_invoke(ReviseAnswer, response)

\* execute_tools returns in this step
DispatcherReturns == runs'["ExecuteTools"] = runs["ExecuteTools"] + 1

\* the messages a step appended
Appended == SubSeq(conversation', Len(conversation) + 1, Len(conversation'))

Range(f) == {f[i] : i \in DOMAIN f}

CallIds(msg) == {msg.tool_calls[k].id : k \in 1..Len(msg.tool_calls)}

\* the query strings the ToolCalls of msg carry under the identifier id
QueryStrings(msg, id) ==
    UNION {Range(msg.tool_calls[k].args.search_queries) :
             k \in {j \in 1..Len(msg.tool_calls) : msg.tool_calls[j].id = id}}

Keys(content) == {content[i].key : i \in 1..Len(content)}

\* C7: for the Model message handed to it, the dispatcher emits exactly
\* one ToolResult per distinct call-identifier of that message, and the
\* keys of each ToolResult are exactly the query strings of its identifier,
\* also for a ToolCall with an empty query list and for ToolCalls that
\* share query strings.
C7_OneResultPerCallId ==
    [][ DispatcherReturns =>
          LET msg == Last(conversation)
              out == Appended
          IN  /\ Len(out) = Cardinality(CallIds(msg))
              /\ \A id \in CallIds(msg) :
                    \E i \in 1..Len(out) :
                       /\ out[i].type = "tool"
                       /\ out[i].tool_call_id = id
                       /\ Keys(out[i].content) = QueryStrings(msg, id)
                       /\ \A j \in 1..Len(out) : out[j].tool_call_id = id => j = i
      ]_vars

\* the ToolCalls of every Model message of the Conversation, with the
\* position of the message
EmittedCalls ==
    {<<j, k>> \in (1..Len(conversation)) \X (1..(MaxCalls + 1)) :
        /\ conversation[j].type = "ai"
        /\ k <= Len(conversation[j].tool_calls)}

IdOf(jk) == conversation[jk[1]].tool_calls[jk[2]].id

\* the Model message at position j has been handed to execute_tools, which
\* returned
BeenThroughExecuteTools(j) ==
    \/ \E i \in (j + 1)..Len(conversation) : conversation[i].type = "ai"
    \/ stage = "Revise"

ToolResults == {i \in 1..Len(conversation) : conversation[i].type = "tool"}

\* C8: every ToolResult of the Conversation answers exactly one ToolCall
\* of an earlier Model message, every ToolCall that has been through
\* ExecuteTools has its ToolResult, and no ToolCall has two.
C8_ResultsMatchCalls ==
    /\ \A i \in ToolResults :
          Cardinality({jk \in EmittedCalls :
                          jk[1] < i /\ IdOf(jk) = conversation[i].tool_call_id}) = 1
    /\ \A jk \in EmittedCalls :
          BeenThroughExecuteTools(jk[1]) =>
             \E i \in ToolResults :
                i > jk[1] /\ conversation[i].tool_call_id = IdOf(jk)
    /\ \A jk \in EmittedCalls :
          Cardinality({i \in ToolResults :
                          conversation[i].tool_call_id = IdOf(jk)}) <= 1

\* C9: a Conversation that ends in a Model message with zero ToolCalls
\* goes through ExecuteTools unchanged: the dispatcher returns, having
\* emitted no ToolResult.
C9_NoCallsNoResults ==
    [][ ( /\ stage = "ExecuteTools"
          /\ Last(conversation).type = "ai"
          /\ Last(conversation).tool_calls = <<>> ) =>
            /\ DispatcherReturns
            /\ conversation' = conversation
            /\ stage' = "Revise"
            /\ error' = "none"
      ]_vars

\* execute_tools has run on a Model message without ToolCalls, which is
\* still the last message when revise starts
C9_Witness ==
    /\ stage = "Revise"
    /\ attempt = 0
    /\ runs["ExecuteTools"] = 2
    /\ Last(conversation).type = "ai"
    /\ Last(conversation).tool_calls = <<>>

\* C10: a run in which respond has exhausted its retries, in Draft or in
\* Revise, and handed back an invalid Model message does not fail: the
\* orchestrator goes on through its stages.
C10_ExhaustedRunDoesNotFail == RejectedInConversation => error = "none"

\* C1: every run reaches Terminated, whatever ToolCalls and queries the
\* Model messages carry and whatever attempts fail validation.
C1_EventuallyTerminated == <>(stage = END)

\* every run comes to an end: it reaches Terminated or leaves with an error
RunStops == <>(stage = END \/ error # "none")

\* while it has not stopped, a run can take a step
RunNeverStuck == (stage = END \/ error # "none") \/ ENABLED Next

\* C11: an error of the backend that is no validation failure is not retried,
\* on whichever attempt it comes: the step in which the client raises it ends
\* the run with that error, outside Terminated and with the Conversation as it
\* was, and no client call follows it.
C11_BackendErrorNotRetried ==
    [][ /\ raised' = "BackendError" =>
              /\ error' = "BackendError"
              /\ stage' # END
              /\ conversation' = conversation
        /\ raised = "BackendError" => client_calls' = client_calls ]_vars

C11_Witness ==
    /\ stage = "Revise"
    /\ attempt = MaxAttempts
    /\ raised = "BackendError"
    /\ error = "BackendError"

\* the Model message execute_tools has read: the last one of the Conversation
Dispatched ==
    conversation[CHOOSE j \in 1..Len(conversation) :
                    /\ conversation[j].type = "ai"
                    /\ \A k \in (j + 1)..Len(conversation) :
                          conversation[k].type # "ai"]

RECURSIVE TotalQueries(_)
TotalQueries(parsed_tool_calls) ==
    IF parsed_tool_calls = <<>> THEN 0
    ELSE Len(Head(parsed_tool_calls).args.search_queries)
         + TotalQueries(Tail(parsed_tool_calls))

BatchStarted == pc = "batch" \/ runs["ExecuteTools"] > 0

\* C17: every (call-identifier, query) pair is dispatched as a lookup of its
\* own: the batch has as many operations as there are query strings in all
\* ToolCalls of the message, each operation carries one query string of one
\* call, and a pair occurs among the operations as often as the query occurs
\* in that call's list (a repeated query is not merged).
C17_OneLookupPerQuery ==
    BatchStarted =>
        LET parsed == parser_invoke(Dispatched)
        IN  /\ Len(tool_invocations) = TotalQueries(parsed)
            /\ \A i \in 1..Len(tool_invocations) :
                  \E k \in 1..Len(parsed) :
                      /\ tool_invocations[i][1] = parsed[k].id
                      /\ tool_invocations[i][2] \in
                             Range(parsed[k].args.search_queries)
            /\ \A k \in 1..Len(parsed) :
                  \A q \in Range(parsed[k].args.search_queries) :
                      Cardinality({i \in 1..Len(tool_invocations) :
                                     tool_invocations[i] = <<parsed[k].id, q>>})
                      = Cardinality({j \in 1..Len(parsed[k].args.search_queries) :
                                       parsed[k].args.search_queries[j] = q})

\* a call that repeats a query, and a query shared by three calls
C17_Witness ==
    /\ pc = "batch"
    /\ \/ /\ Len(parser_invoke(Dispatched)) = 1
          /\ Len(tool_invocations) = 2
          /\ tool_invocations[1] = tool_invocations[2]
       \/ /\ Len(parser_invoke(Dispatched)) = 3
          /\ Len(tool_invocations) = 4

\* what the lookup at position i of the batch handed back
Outcome(i) ==
    completed[CHOOSE j \in 1..Len(completed) : completed[j][1] = i][2]

Succeeded == {i \in 1..Len(tool_invocations) : Outcome(i)[1] # "error"}

\* a later operation of the batch has the same identifier and query
Superseded(i) ==
    \E l \in (i + 1)..Len(tool_invocations) :
        tool_invocations[l] = tool_invocations[i]

\* the messages `out` hold `value` under the identifier and query of `pair`
Holds(out, pair, value) ==
    \E m \in 1..Len(out) :
        /\ out[m].type = "tool"
        /\ out[m].tool_call_id = pair[1]
        /\ \E e \in 1..Len(out[m].content) :
              /\ out[m].content[e].key = pair[2]
              /\ out[m].content[e].value = value

BatchOver == pc = "batch" /\ Pending = {}

\* C12 as stated: when a lookup of the batch has failed the batch is not
\* aborted, and the results of all operations that succeeded are in the
\* emitted ToolResults.
C12_AllSucceededPresent ==
    [][ (BatchOver /\ Failed(completed) # {}) =>
            /\ DispatcherReturns
            /\ error' = "none"
            /\ \A i \in Succeeded :
                  Holds(Appended, tool_invocations[i], Outcome(i)) ]_vars

\* C12, amended: when a lookup of the batch has failed the batch is not
\* aborted, and the emitted ToolResults hold the results of every operation
\* that succeeded, except those of an operation followed in the batch by
\* one with the same identifier and query, whose outcome takes their place.
C12_SucceededPresentUnlessSuperseded ==
    [][ (BatchOver /\ Failed(completed) # {}) =>
            /\ DispatcherReturns
            /\ error' = "none"
            /\ \A i \in Succeeded :
                  \/ Holds(Appended, tool_invocations[i], Outcome(i))
                  \/ /\ Superseded(i)
                     /\ \E l \in (i + 1)..Len(tool_invocations) :
                           /\ tool_invocations[l] = tool_invocations[i]
                           /\ ~Superseded(l)
                           /\ Holds(Appended, tool_invocations[l], Outcome(l))
      ]_vars

\* a batch of four lookups has returned; one failed, three results are kept
C12_Witness ==
    /\ pc = "idle"
    /\ runs["ExecuteTools"] = 1
    /\ Failed(completed) # {}
    /\ Cardinality(Succeeded) = 3
    /\ stage = "Revise"
    /\ Len(conversation) = 5

\* the first position of the batch that carries the identifier id
FirstOf(id) ==
    CHOOSE i \in 1..Len(tool_invocations) :
        /\ tool_invocations[i][1] = id
        /\ \A l \in 1..(i - 1) : tool_invocations[l][1] # id

\* C18: the lookups of a batch end in any order, and whatever the order each
\* result is stored under the identifier and the query of the operation that
\* produced it: every entry of an emitted ToolResult is the outcome of the
\* last operation of the batch with that identifier and query, every
\* operation has its entry, and the ToolResults come in the order in which
\* their identifiers come in the batch; so the emitted messages depend on
\* the operations and their outcomes only, not on the order of completion.
C18_StoredUnderOwnIdAndQuery ==
    [][ DispatcherReturns =>
          LET out == Appended
          IN  /\ \A m \in 1..Len(out) :
                    \A e \in 1..Len(out[m].content) :
                        \E i \in 1..Len(tool_invocations) :
                            /\ tool_invocations[i] =
                                  <<out[m].tool_call_id, out[m].content[e].key>>
                            /\ ~Superseded(i)
                            /\ out[m].content[e].value = Outcome(i)
              /\ \A i \in 1..Len(tool_invocations) :
                    \E m \in 1..Len(out) :
                        /\ out[m].tool_call_id = tool_invocations[i][1]
                        /\ tool_invocations[i][2] \in Keys(out[m].content)
              /\ \A m1, m2 \in 1..Len(out) :
                    m1 < m2 => FirstOf(out[m1].tool_call_id)
                                 < FirstOf(out[m2].tool_call_id)
              /\ \A m \in 1..Len(out) :
                    \A e1, e2 \in 1..Len(out[m].content) :
                        e1 < e2 => out[m].content[e1].key
                                     # out[m].content[e2].key ]_vars

\* four lookups ended last to first, one of them failed, execute_tools
\* has returned three ToolResults
C18_Witness ==
    /\ pc = "idle"
    /\ runs["ExecuteTools"] = 1
    /\ Len(completed) = 4
    /\ \A j \in 1..4 : completed[j][1] = 5 - j
    /\ Failed(completed) # {}
    /\ Len(conversation) = 5

\* C13: the Conversation is append-only over the whole run: in every step,
\* so after every stage, the Conversation before is a prefix of the
\* Conversation after; no message is removed, moved or changed and the
\* length never decreases.
C13_AppendOnly ==
    [][ /\ Len(conversation') >= Len(conversation)
        /\ SubSeq(conversation', 1, Len(conversation)) = conversation ]_vars

\* a finished run in which every stage has appended messages
C13_Witness ==
    /\ stage = END
    /\ runs["Revise"] >= 2
    /\ ToolResults # {}
    /\ Len(conversation) > MAX_ITERATIONS + 1

\* C14: when the run is in ExecuteTools and when it is in Terminated the
\* last message of the Conversation is a Model message, the one the last
\* respond returned; the step into ExecuteTools is taken by Draft or Revise
\* and appends just that message, the step into Terminated is taken by
\* Revise and appends just that message.
C14_LastIsModelMessage ==
    /\ [](stage \in {"ExecuteTools", END} =>
             /\ Last(conversation).type = "ai"
             /\ Last(conversation) = response)
    /\ [][ (stage' \in {"ExecuteTools", END} /\ stage' # stage) =>
             /\ stage \in {"Draft", "Revise"}
             /\ stage' = END => stage = "Revise"
             /\ Appended = <<response'>>
             /\ response'.type = "ai" ]_vars

C14_Witness ==
    /\ stage = END
    /\ runs["ExecuteTools"] >= 2
    /\ Last(conversation).type = "ai"
    /\ conversation[Len(conversation) - 1].type = "tool"

\* the local history of respond before its next attempt: the caller's
\* Conversation and one feedback message per failed attempt
LocalHistory(n) == conversation \o [i \in 1..(n - 1) |-> Feedback]

\* C19: within one respond call the n-th attempt (n = 1, 2, 3) invokes the
\* client with the caller's Conversation followed by exactly n-1 synthetic
\* Human feedback messages; no Model response is in that history.
C19_AttemptSeesFeedbackOnly ==
    [][ (Responding /\ ClientCalled) =>
            /\ attempt + 1 \in 1..MaxAttempts
            /\ state = LocalHistory(attempt + 1) ]_vars

\* the third attempt of a Revise was made on the Conversation and two
\* feedback messages, and was accepted
C19_Witness ==
    /\ attempt = MaxAttempts
    /\ stage = "ExecuteTools"
    /\ runs["Revise"] = 1
    /\ validator_invoke(ReviseAnswer, response)
    /\ state = SubSeq(conversation, 1, Len(conversation) - 1)
                  \o <<Feedback, Feedback>>

NodeRuns(d, e, r) ==
    [n \in {"Draft", "ExecuteTools", "Revise"} |->
        IF n = "Draft" THEN d ELSE IF n = "ExecuteTools" THEN e ELSE r]

\* C15 as stated: with a backend that always answers validly and without
\* search queries, the run is in Terminated after exactly one Draft,
\* ExecuteTools, Revise cycle, with a depth over 5 and the last Revise's
\* message as its output.
C15_OneCycleThenTerminated ==
    stage = END =>
        /\ runs = NodeRuns(1, 1, 1)
        /\ num_iterations > MAX_ITERATIONS
        /\ Last(conversation) = response

\* C15, amended: with such a backend every ExecuteTools is a no-op and the
\* run goes on until Revise has run five times: the depth after the n-th
\* Revise is n + 1, the run continues while it is at most 5 and is in
\* Terminated when it is 6; the output is the message of the fifth Revise.
C15_FiveCyclesThenTerminated ==
    /\ ToolResults = {}
    /\ runs["Revise"] >= 1 => num_iterations = runs["Revise"] + 1
    /\ stage # END =>
          /\ runs["Revise"] < MAX_ITERATIONS
          /\ ENABLED NextQuiet
    /\ stage = END =>
          /\ runs = NodeRuns(1, MAX_ITERATIONS, MAX_ITERATIONS)
          /\ num_iterations = MAX_ITERATIONS + 1
          /\ Len(conversation) = MAX_ITERATIONS + 2
          /\ Last(conversation) = response
          /\ validator_invoke(ReviseAnswer, response)

C15_Witness ==
    /\ stage = END
    /\ ToolResults = {}
    /\ runs["Revise"] = MAX_ITERATIONS
    /\ \E j \in 2..Len(conversation) : conversation[j].tool_calls # <<>>

\* C16 as stated: Terminated is entered only on a depth over 5, and the
\* threshold lets Revise run a sixth time: the runs that revise most often,
\* those without any ToolResult, have run Revise six times when they stop.
C16_SixthReviseCycle ==
    /\ [][ (stage' = END /\ stage # END) => num_iterations' > MAX_ITERATIONS ]_vars
    /\ []((stage = END /\ ToolResults = {}) => runs["Revise"] >= 6)

\* C16, amended: the run enters Terminated exactly when the depth Revise
\* leaves is over 5, and goes to ExecuteTools on a depth of 5 or less; the
\* depth after the n-th Revise is at least n + 1, so Revise runs at most 5
\* times; it has run 5 times when a run without any ToolResult stops.
C16_StrictThresholdFiveRevises ==
    /\ [][ (stage' = END /\ stage # END) =>
              (stage = "Revise" /\ num_iterations' > MAX_ITERATIONS) ]_vars
    /\ [][ (stage = "Revise" /\ runs'["Revise"] = runs["Revise"] + 1) =>
              /\ num_iterations' >= runs'["Revise"] + 1
              /\ num_iterations' > MAX_ITERATIONS => stage' = END
              /\ num_iterations' <= MAX_ITERATIONS => stage' = "ExecuteTools"
          ]_vars
    /\ [](runs["Revise"] <= MAX_ITERATIONS)
    /\ []((stage = END /\ ToolResults = {}) => runs["Revise"] = MAX_ITERATIONS)

\* a run that went on at depth 5 and stopped at depth 6, after five Revises
C16_Witness ==
    /\ stage = END
    /\ runs["Revise"] = MAX_ITERATIONS
    /\ num_iterations = MAX_ITERATIONS + 1

ModelMessages == {j \in 1..Len(conversation) : conversation[j].type = "ai"}

\* the ToolResults between the Model message at j and the next one
ResultsAfter(j) ==
    Cardinality({i \in ToolResults :
                    /\ i > j
                    /\ \A k \in ModelMessages : k > j => i < k})

\* how many ToolResults each ExecuteTools of a finished run has appended
AppendedPerExecuteTools ==
    {ResultsAfter(j) : j \in ModelMessages \ {Len(conversation)}}

\* the smallest n with 1 + n * (t + 1) > MAX_ITERATIONS
SmallestN(t) ==
    CHOOSE n \in 1..MAX_ITERATIONS :
        /\ 1 + n * (t + 1) > MAX_ITERATIONS
        /\ \A m \in 1..(n - 1) : 1 + m * (t + 1) <= MAX_ITERATIONS

Tabulated(t) ==
    IF t = 0 THEN 5 ELSE IF t = 1 THEN 3 ELSE IF t \in {2, 3} THEN 2 ELSE 1

RevisesByResults ==
    \A t \in 0..(MaxCalls + 1) :
        AppendedPerExecuteTools = {t} =>
            /\ runs["Revise"] = SmallestN(t)
            /\ runs["Revise"] = Tabulated(t)

RunOver == stage = END \/ error # "none"

\* C20 as stated: in every run, once it is over, Revise has run the number
\* of times the ToolResults per ExecuteTools determine, at least once and at
\* most 5 times, and the client has been called at most 18 times.
C20_EveryRunRevises ==
    /\ RunOver => (RevisesByResults /\ runs["Revise"] \in 1..MAX_ITERATIONS)
    /\ client_calls <= (MAX_ITERATIONS + 1) * MaxAttempts

\* C20, amended: in every run that reaches Terminated, Revise has run the
\* smallest n with 1 + n * (t + 1) > 5 times when every ExecuteTools appended
\* t ToolResults (5, 3, 2, 2, 1 for t = 0, 1, 2, 3, >= 4), and in any case at
\* least once and at most 5 times; in every run, finished or not, Revise has
\* run at most 5 times and the client has been called at most 18 times.
C20_TerminatedRunRevises ==
    /\ stage = END =>
          (RevisesByResults /\ runs["Revise"] \in 1..MAX_ITERATIONS)
    /\ runs["Revise"] <= MAX_ITERATIONS
    /\ client_calls <= (MAX_ITERATIONS + 1) * MaxAttempts

\* a finished run of five Revises and eighteen client calls
C20_Witness ==
    /\ stage = END
    /\ AppendedPerExecuteTools = {0}
    /\ runs["Revise"] = 5
    /\ client_calls = 18

HumanMessages == {i \in 1..Len(conversation) : IsHuman(conversation[i])}

\* revise returns in this step and event_loop decides
TerminationDecision == runs'["Revise"] = runs["Revise"] + 1

\* C21: throughout a run started from one Human task message the
\* Conversation holds exactly one Human message, the task, in its first
\* place; the feedback of failed attempts stays in the local history of
\* respond.  So at every termination decision the depth computed is the
\* length of the Conversation minus 1, and it is greater than the depth
\* computed at the decision before.
C21_OneHumanDepthIsLengthMinusOne ==
    /\ [](HumanMessages = {1} /\ conversation[1] = Task)
    /\ [][ TerminationDecision =>
              /\ num_iterations' = Len(conversation') - 1
              /\ num_iterations' > num_iterations ]_vars

\* the second Revise of a run has decided, after an attempt of it failed
\* and left its feedback in the local history
C21_Witness ==
    /\ stage = "ExecuteTools"
    /\ runs["Revise"] = 2
    /\ \E i \in 1..Len(state) : i > 1 /\ IsHuman(state[i])
    /\ num_iterations = Len(conversation) - 1
    /\ num_iterations > 2
====
